---- MODULE Spec2Model ----
(***************************************************************************)
(* Model of iarc7_vision's RoombaBlobDetector (src/src/RoombaBlobDetector  *)
(* .cpp): thresholdFrame, boundMask, checkCorners and detect, with the     *)
(* settings structure of RoombaEstimatorSettings.hpp.                      *)
(* The vision node's main (src/src/VisionNode.cpp) is modelled beside it,  *)
(* under its own specification SpecNode: getDynamicSettings, the startup    *)
(* wait loop, the image queue and the main loop.                            *)
(*                                                                         *)
(* Representation.  TLC has 32-bit integers and no reals, so:              *)
(*  - a frame is described by what the pipeline observes of it: its        *)
(*    background colour and its uniformly coloured regions ("blobs"), each *)
(*    with the boundary polygon cv::findContours extracts for it, the      *)
(*    colour of the frame at its four corner patches, and its smallest     *)
(*    thickness (what a morphological opening compares with the kernel);   *)
(*  - contour points are pixel coordinates on a 10-pixel lattice; moments  *)
(*    are accumulated in lattice cells and the area scaled back to px^2;   *)
(*  - the principal axes are the closed-form eigenvectors of the 2x2       *)
(*    covariance for the cases in which they are rational directions       *)
(*    (multiples of 45 degrees); an eigenvector v is kept as an integer    *)
(*    vector of squared norm n2 (1 or 2), the unit vector being v/sqrt(n2);*)
(*    the sign an eigen-solver gives each eigenvector is not fixed by the  *)
(*    mathematics and is a nondeterministic input of detect;               *)
(*  - a rectangle is [c4, wn, hn, n2, angle]: c4 = 4 * center,             *)
(*    size = (wn, hn) / sqrt(n2), angle in degrees.                        *)
(***************************************************************************)
EXTENDS Integers, Sequences, FiniteSets, TLC

VARIABLES
    settings_,       \* RoombaBlobDetector::settings_
    advertised,      \* topics advertised by the constructor
    bounding_rects,  \* the caller's output vector (in/out argument of detect)
    frame,           \* the frame of the last detect call
    eigen_signs,     \* the eigen-solver's sign choice in the last detect call
    stale_len,       \* how many rectangles the caller's vector held when the call began
    last,            \* what the last detect call did, step by step:
                     \*   contours       what cv::findContours returned
                     \*   verdicts       per contour: "area" | "aspect" | "emitted" | "throw"
                     \*   pre_rects      boundMask's output (checkCorners' input)
                     \*   corners        per rectangle: the 2x2 corner matrix
                     \*   published      topics a diagnostic image was published on
                     \*   thrown         the exception raised, or "none"
                     \*   contour_iters  executions of boundMask's per-contour loop body
                     \*   corner_iters   executions of checkCorners' per-rectangle loop body
    px,              \* one HSV sample put through both colour tests:
                     \*   hsv         the sample
                     \*   dst         thresholdFrame's mask value for it, before the opening
                     \*   patch_good  checkCorners' patch_good_mat value for it
    \* the vision node (src/src/VisionNode.cpp, main)
    pc,                          \* where main is: "init" | "wait" | "loop" | "spin" | "done" | "aborted"
    dynamic_reconfigure_called,  \* main's flag, getDynamicSettings' ran
    param_server,                \* the settings on the parameter server
    config,                      \* the dynamic-reconfigure server's config
    incoming,                    \* the config the last getDynamicSettings call was given
    node_settings,               \* line_extractor_settings and optical_flow_estimator_settings
    calls,                       \* getDynamicSettings calls made
    now,                         \* ros::Time::now(), 0 until time begins
    ros_ok,                      \* ros::ok()
    subscribed,                  \* nh.subscribe has been executed
    message_queue_item_limit,    \* main's local of that name
    message_queue,               \* main's message_queue, messages named by arrival number
    arrived,                     \* how many messages the handler has been called with
    handed                       \* the estimator updates made, in order: <<estimator, message>>

detVars == <<settings_, advertised, bounding_rects, frame, eigen_signs, stale_len, last>>

nodeVars == <<pc, dynamic_reconfigure_called, param_server, config, incoming,
              node_settings, calls, now, ros_ok, subscribed,
              message_queue_item_limit, message_queue, arrived, handed>>

vars == <<detVars, px, nodeVars>>

\* ------------------------------------------------------------ arithmetic

Abs(x) == IF x < 0 THEN -x ELSE x

Sgn(x) == IF x < 0 THEN -1 ELSE IF x > 0 THEN 1 ELSE 0

Max3(a, b, c) == IF a >= b /\ a >= c THEN a ELSE IF b >= c THEN b ELSE c

Min3(a, b, c) == IF a <= b /\ a <= c THEN a ELSE IF b <= c THEN b ELSE c

\* a / b rounded to the nearest integer, b > 0
RoundDiv(a, b) == (2 * a + b) \div (2 * b)

Inner(v, p) == v[1] * p[1] + v[2] * p[2]

\* std::fmod(a, m): the result has the sign of the dividend
Fmod(a, m) == IF a >= 0 THEN a % m ELSE -((-a) % m)

\* ----------------------------------------------------------------- colour

\* cv::cvtColor(..., COLOR_RGB2HSV) on 8-bit samples: H in [0,180), S and V in [0,255]
RGB2HSV(c) ==
    LET r == c[1]
        g == c[2]
        b == c[3]
        v == Max3(r, g, b)
        diff == v - Min3(r, g, b)
        s == IF v = 0 THEN 0 ELSE RoundDiv(255 * diff, v)
        h0 == IF diff = 0 THEN 0
              ELSE IF v = r THEN RoundDiv(30 * (g - b), diff)
              ELSE IF v = g THEN 60 + RoundDiv(30 * (b - r), diff)
              ELSE 120 + RoundDiv(30 * (r - g), diff)
        h == IF h0 < 0 THEN h0 + 180 ELSE h0
    IN  <<h, s, v>>

\* Mutant of CvInRange: the upper bound is not a member
CvInRangeExclusive(hsv, lo, hi) ==
    \A k \in 1..3 : lo[k] <= hsv[k] /\ hsv[k] < hi[k]

\* cv::inRange on one 3-channel sample: every channel within [lo, hi], inclusive
CvInRange(hsv, lo, hi) ==
    \A k \in 1..3 : lo[k] <= hsv[k] /\ hsv[k] <= hi[k]

\* cv_utils::inRange (the GPU range test used by thresholdFrame), per sample
CvUtilsInRange(hsv, lo, hi) ==
    \A k \in 1..3 : lo[k] <= hsv[k] /\ hsv[k] <= hi[k]

GreenLo(s) == <<s.hsv_slice_h_green_min, s.hsv_slice_s_min, s.hsv_slice_v_min>>
GreenHi(s) == <<s.hsv_slice_h_green_max, s.hsv_slice_s_max, s.hsv_slice_v_max>>
Red1Lo(s) == <<s.hsv_slice_h_red1_min, s.hsv_slice_s_min, s.hsv_slice_v_min>>
Red1Hi(s) == <<s.hsv_slice_h_red1_max, s.hsv_slice_s_max, s.hsv_slice_v_max>>
Red2Lo(s) == <<s.hsv_slice_h_red2_min, s.hsv_slice_s_min, s.hsv_slice_v_min>>
Red2Hi(s) == <<s.hsv_slice_h_red2_max, s.hsv_slice_s_max, s.hsv_slice_v_max>>

\* thresholdFrame's dst for one HSV sample after the three bitwise_or's
RangeMaskOr(s, hsv) ==
    \/ CvUtilsInRange(hsv, GreenLo(s), GreenHi(s))
    \/ CvUtilsInRange(hsv, Red1Lo(s), Red1Hi(s))
    \/ CvUtilsInRange(hsv, Red2Lo(s), Red2Hi(s))

\* checkCorners' patch_good_mat for one HSV sample after the three bitwise_or's
PatchGoodMat(s, hsv) ==
    \/ CvInRange(hsv, GreenLo(s), GreenHi(s))
    \/ CvInRange(hsv, Red1Lo(s), Red1Hi(s))
    \/ CvInRange(hsv, Red2Lo(s), Red2Hi(s))

\* thresholdFrame's per-pixel membership, before the opening: the three slices ORed
ThresholdPixel(s, rgb) == RangeMaskOr(s, RGB2HSV(rgb))

\* checkCorners' test of one averaged patch colour (patch_good_mat)
PatchGood(s, rgb) == PatchGoodMat(s, RGB2HSV(rgb))

\* --------------------------------------------------------------- settings

\* The fields of RoombaEstimatorSettings the detector reads.
MkSettings(gmin, gmax, vmin, msize, miter, dbg_hsv, dbg_contours) ==
    [hsv_slice_h_green_min |-> gmin, hsv_slice_h_green_max |-> gmax,
     hsv_slice_h_red1_min |-> 0, hsv_slice_h_red1_max |-> 10,
     hsv_slice_h_red2_min |-> 170, hsv_slice_h_red2_max |-> 180,
     hsv_slice_s_min |-> 100, hsv_slice_s_max |-> 255,
     hsv_slice_v_min |-> vmin, hsv_slice_v_max |-> 255,
     morphology_size |-> msize, morphology_iterations |-> miter,
     debug_hsv_slice |-> dbg_hsv, debug_contours |-> dbg_contours]

\* The settings values a detector is constructed with in this model.
SettingsSet ==
    { MkSettings(40, 80, 100, 5, 1, dh, dc) : dh \in BOOLEAN, dc \in BOOLEAN }
    \cup { MkSettings(70, 80, 100, 1, 1, FALSE, TRUE),
           MkSettings(40, 80, 50, 15, 2, TRUE, FALSE) }

\* Settings values with a bound pair out of order or a negative kernel size:
\* green hue min above max, value min above max, a negative morphology kernel.
InvalidSettings ==
    { MkSettings(80, 40, 100, 5, 1, FALSE, FALSE),
      MkSettings(40, 80, 300, 5, 1, TRUE, FALSE),
      MkSettings(40, 80, 100, -1, 1, FALSE, TRUE) }

\* Every min bound at most its max bound, kernel size and iterations not negative.
ValidSettings(s) ==
    /\ s.hsv_slice_h_green_min <= s.hsv_slice_h_green_max
    /\ s.hsv_slice_h_red1_min <= s.hsv_slice_h_red1_max
    /\ s.hsv_slice_h_red2_min <= s.hsv_slice_h_red2_max
    /\ s.hsv_slice_s_min <= s.hsv_slice_s_max
    /\ s.hsv_slice_v_min <= s.hsv_slice_v_max
    /\ s.morphology_size >= 0
    /\ s.morphology_iterations >= 0

\* ----------------------------------------------------------------- frames

Red == <<255, 0, 0>>
Green == <<0, 255, 0>>
Blue == <<0, 0, 255>>
White == <<255, 255, 255>>
Black == <<0, 0, 0>>
DarkRed == <<90, 0, 0>>
Lime == <<128, 255, 0>>

Add(p, q) == <<p[1] + q[1], p[2] + q[2]>>

Scale2(k, p) == <<k * p[1], k * p[2]>>

Quadrants == {<<-1, -1>>, <<-1, 1>>, <<1, -1>>, <<1, 1>>}

\* The frame colour at the four corner patches of a plate, by the patch's side
\* along the plate's own axes u and v, given in the order (-u,-v), (-u,+v),
\* (+u,-v), (+u,+v).
Paint(mm, mp, pm, pp) ==
    [q \in Quadrants |->
        IF q = <<-1, -1>> THEN mm ELSE IF q = <<-1, 1>> THEN mp
        ELSE IF q = <<1, -1>> THEN pm ELSE pp]

\* A rectangular region of colour `color`, centre c (px), half-extents a along u and
\* b along v (u, v orthogonal integer vectors of equal norm); its boundary polygon
\* is what cv::findContours(CV_RETR_EXTERNAL, CV_CHAIN_APPROX_SIMPLE) keeps: the
\* four vertices.
Plate(c, u, v, a, b, color, paint, thickness) ==
    [contour |-> << Add(c, Add(Scale2(-a, u), Scale2(-b, v))),
                    Add(c, Add(Scale2(a, u), Scale2(-b, v))),
                    Add(c, Add(Scale2(a, u), Scale2(b, v))),
                    Add(c, Add(Scale2(-a, u), Scale2(b, v))) >>,
     c |-> c, u |-> u, v |-> v, a |-> a, b |-> b,
     color |-> color, paint |-> paint, thickness |-> thickness]

\* A region given by its extracted boundary alone (one pixel, a one-pixel line, or
\* a boundary of zero points); no corner patch lies on it.
Speck(contour, color, thickness) ==
    [contour |-> contour,
     c |-> <<0, 0>>, u |-> <<1, 0>>, v |-> <<0, 1>>, a |-> 0, b |-> 0,
     color |-> color, paint |-> Paint(color, color, color, color),
     thickness |-> thickness]

Plain(color) == Paint(color, color, color, color)

X == <<1, 0>>
Y == <<0, 1>>
D1 == <<1, 1>>
D2 == <<-1, 1>>

\* 60 x 40 px, wider than tall
Wide(color, paint) == Plate(<<70, 60>>, X, Y, 30, 20, color, paint, 40)
\* 40 x 50 px: area 2000, the lower end of the band
Tall(color, paint) == Plate(<<150, 50>>, X, Y, 20, 25, color, paint, 40)
\* 60*sqrt2 x 30*sqrt2 px, rotated by 45 degrees: area 3600
Diamond(color, paint) == Plate(<<75, 45>>, D1, D2, 30, 15, color, paint, 40)
\* 50 x 50 px: equal principal moments
Square(color) == Plate(<<60, 60>>, X, Y, 25, 25, color, Plain(color), 50)
\* 150 x 100 px: area 15000, the upper end of the band
Largest(color) == Plate(<<80, 60>>, X, Y, 75, 50, color, Plain(color), 100)
\* 130 x 120 px: area 15600
TooBig(color) == Plate(<<70, 70>>, X, Y, 65, 60, color, Plain(color), 120)
\* 30 x 60 px: area 1800
TooSmall(color) == Plate(<<150, 120>>, X, Y, 15, 30, color, Plain(color), 30)
\* 10 x 10 px
Tiny(color) == Plate(<<20, 130>>, X, Y, 5, 5, color, Plain(color), 10)
\* 120 x 30 px: aspect ratio exactly 4
Ratio4(color) == Plate(<<70, 130>>, X, Y, 60, 15, color, Plain(color), 30)
\* 130 x 30 px: aspect ratio above 4
Strip(color) == Plate(<<70, 130>>, X, Y, 65, 15, color, Plain(color), 30)
\* 30 x 130 px: aspect ratio above 4, upright
Pole(color) == Plate(<<170, 70>>, X, Y, 15, 65, color, Plain(color), 30)
\* one pixel / a one-pixel-wide line / a boundary of zero points
Pixel(color) == Speck(<< <<50, 50>> >>, color, 1)
Line(color) == Speck(<< <<20, 20>>, <<60, 20>> >>, color, 1)
NoBoundary(color) == Speck(<< >>, color, 20)

\* Every frame is 201 x 161 px.
MkFrame(bg, blobs) == [size |-> <<201, 161>>, bg |-> bg, blobs |-> blobs]

\* The frames detect is called with in this model.
Frames ==
    { MkFrame(Black, << >>),
      MkFrame(White, << Wide(Blue, Plain(Blue)) >>),
      MkFrame(Black, << Wide(DarkRed, Plain(DarkRed)), Tall(White, Plain(White)) >>),
      MkFrame(Black, << Wide(Red, Plain(Red)) >>),
      MkFrame(Black, << Tall(Green, Plain(Green)) >>),
      MkFrame(Black, << Wide(Red, Paint(White, White, Red, Red)),
                        Tall(Green, Paint(White, White, Green, Green)) >>),
      MkFrame(Black, << Wide(Red, Paint(Red, Red, White, White)),
                        Tall(Green, Paint(Green, Green, White, White)) >>),
      MkFrame(Black, << Wide(Red, Paint(White, Red, White, Red)),
                        Tall(Lime, Paint(Lime, White, Lime, White)) >>),
      MkFrame(Black, << Tall(Green, Paint(Green, White, White, Green)) >>),
      MkFrame(White, << Diamond(Red, Paint(White, White, Red, Red)) >>),
      MkFrame(White, << Diamond(Green, Paint(Green, White, White, Green)) >>),
      MkFrame(White, << Diamond(Red, Paint(Blue, Red, Red, Blue)) >>),
      MkFrame(Black, << Square(Red) >>),
      MkFrame(Black, << Tall(Red, Plain(Red)), TooSmall(Green) >>),
      MkFrame(Black, << Ratio4(Red), Pole(Green) >>),
      MkFrame(Black, << Tall(Green, Paint(White, White, Green, Green)),
                        Wide(Red, Paint(White, Red, Red, White)) >>),
      MkFrame(Black, << Largest(Green), Pole(Red) >>),
      MkFrame(Black, << TooBig(Red) >>),
      MkFrame(Red, << Wide(Blue, Plain(Blue)) >>),
      MkFrame(Black, << Tiny(Red), Ratio4(Green) >>),
      MkFrame(Black, << Strip(Red), Tall(Red, Plain(Red)) >>),
      MkFrame(Black, << Pixel(Red), Wide(Red, Plain(Red)), Line(Red) >>),
      MkFrame(Black, << NoBoundary(Red), Tall(Red, Plain(Red)) >>),
      MkFrame(Black, << Wide(Lime, Plain(Lime)), NoBoundary(Green) >>) }

\* --------------------------------------------------------- thresholdFrame

\* The opening (MORPH_OPEN with a morphology_size square, morphology_iterations
\* times) erases a region thinner than the eroding square and keeps one that is not.
SurvivesOpening(s, thickness) ==
    thickness >= s.morphology_iterations * (s.morphology_size - 1) + 1

\* cv::getStructuringElement with a square that has no anchor inside it (side < 1)
\* fails its assertion: thresholdFrame raises cv::Exception after the range masks.
StructuringElementThrows(s) == s.morphology_size < 1

\* Mutant of ThresholdFrame: dst is not zeroed before the range masks are ORed in,
\* and what it held leaves the background set
ThresholdFrameNotZeroed(s, f) ==
    [size |-> f.size,
     bg |-> TRUE,
     regions |-> SelectSeq(f.blobs,
                    LAMBDA b : /\ ThresholdPixel(s, b.color)
                               /\ SurvivesOpening(s, b.thickness))]

\* thresholdFrame: the mask, as whether the background is set and which regions are.
ThresholdFrame(s, f) ==
    [size |-> f.size,
     bg |-> ThresholdPixel(s, f.bg),
     regions |-> SelectSeq(f.blobs,
                    LAMBDA b : /\ ThresholdPixel(s, b.color)
                               /\ SurvivesOpening(s, b.thickness))]

\* ---------------------------------------------------------------- boundMask

\* cv::findContours(mask, CV_RETR_EXTERNAL, CV_CHAIN_APPROX_SIMPLE): one outer
\* boundary per connected region; a set background is one region spanning the frame.
FindContours(mask) ==
    IF mask.bg
    THEN << << <<0, 0>>, <<0, mask.size[2] - 1>>,
               <<mask.size[1] - 1, mask.size[2] - 1>>, <<mask.size[1] - 1, 0>> >> >>
    ELSE [k \in 1..Len(mask.regions) |-> mask.regions[k].contour]

RECURSIVE SeqSum(_)
SeqSum(q) == IF q = << >> THEN 0 ELSE Head(q) + SeqSum(Tail(q))

\* cv::moments of a contour (Green's formula over the closed polygon), in cells of
\* 10 x 10 px: m00 in px^2, and the covariance (nu20, nu11, nu02) scaled by the
\* positive factor 72 * |a00| * m00^2 / 10^4, which leaves its eigenvectors and the
\* order of its eigenvalues unchanged.
ContourMoments(contour) ==
    LET n == Len(contour)
        x(i) == contour[i][1] \div 10
        y(i) == contour[i][2] \div 10
        prev(i) == IF i = 1 THEN n ELSE i - 1
        dxy(i) == x(prev(i)) * y(i) - x(i) * y(prev(i))
        xs(i) == x(prev(i)) + x(i)
        ys(i) == y(prev(i)) + y(i)
        a00 == SeqSum([i \in 1..n |-> dxy(i)])
        a10 == SeqSum([i \in 1..n |-> dxy(i) * xs(i)])
        a01 == SeqSum([i \in 1..n |-> dxy(i) * ys(i)])
        a20 == SeqSum([i \in 1..n |-> dxy(i) * (x(prev(i)) * xs(i) + x(i) * x(i))])
        a11 == SeqSum([i \in 1..n |->
                    dxy(i) * (x(prev(i)) * (ys(i) + y(prev(i))) + x(i) * (ys(i) + y(i)))])
        a02 == SeqSum([i \in 1..n |-> dxy(i) * (y(prev(i)) * ys(i) + y(i) * y(i))])
    IN  [m00 |-> 50 * Abs(a00),
         xx |-> 6 * a00 * a20 - 4 * a10 * a10,
         xy |-> 3 * a00 * a11 - 4 * a10 * a01,
         yy |-> 6 * a00 * a02 - 4 * a01 * a01]

MinArea == 2000
MaxArea == 15000
MaxAspect == 4

\* Mutant of AreaRejected: the ends of the band are rejected too
AreaRejectedExclusive(s, m00) == m00 <= MinArea \/ m00 >= MaxArea

\* Mutant of AreaRejected: no lower end
AreaRejectedNoMin(s, m00) == m00 > MaxArea

\* The area filter: moments.m00 < 2000 || moments.m00 > 15000
AreaRejected(s, m00) == m00 < MinArea \/ m00 > MaxArea

\* Eigen::SelfAdjointEigenSolver on the 2x2 covariance, closed form, eigenvalues in
\* increasing order: <<evector0, evector1>> as integer directions.  Defined for a
\* diagonal covariance and for one with equal diagonal entries; "none" otherwise.
EigenAxes(m) ==
    IF m.xy = 0
    THEN IF m.xx <= m.yy THEN << <<1, 0>>, <<0, 1>> >> ELSE << <<0, 1>>, <<1, 0>> >>
    ELSE IF m.xx = m.yy
    THEN IF m.xy > 0 THEN << <<-1, 1>>, <<1, 1>> >> ELSE << <<1, 1>>, <<-1, 1>> >>
    ELSE "none"

\* The signs an eigen-solver may give the two eigenvectors.
SignChoices == {<<1, 1>>, <<1, -1>>, <<-1, 1>>, <<-1, -1>>}

EigenVectors(m, sg) ==
    LET ax == EigenAxes(m)
    IN  << Scale2(sg[1], ax[1]), Scale2(sg[2], ax[2]) >>

\* std::atan2(y, x) in degrees, for the directions of the model
Atan2Deg(y, x) ==
    IF y = 0 THEN (IF x >= 0 THEN 0 ELSE 180)
    ELSE IF x = 0 THEN (IF y > 0 THEN 90 ELSE -90)
    ELSE IF y > 0 THEN (IF x > 0 THEN 45 ELSE 135)
    ELSE (IF x > 0 THEN -45 ELSE -135)

RECURSIVE SeqMin(_)
SeqMin(q) == IF Len(q) = 1 THEN q[1]
             ELSE LET r == SeqMin(Tail(q)) IN IF q[1] < r THEN q[1] ELSE r

RECURSIVE SeqMax(_)
SeqMax(q) == IF Len(q) = 1 THEN q[1]
             ELSE LET r == SeqMax(Tail(q)) IN IF q[1] > r THEN q[1] ELSE r

\* The rectangle boundMask fits to a contour of at least one point: the extents of
\* the projections on the two eigenvectors.
FitRect(contour, ev) ==
    LET n2 == Inner(ev[1], ev[1])
        dx == [i \in 1..Len(contour) |-> Inner(ev[1], contour[i])]
        dy == [i \in 1..Len(contour) |-> Inner(ev[2], contour[i])]
        rect_min_x == SeqMin(dx)
        rect_max_x == SeqMax(dx)
        rect_min_y == SeqMin(dy)
        rect_max_y == SeqMax(dy)
    IN  [c4 |-> Add(Scale2(((rect_max_x + rect_min_x) * 2) \div n2, ev[1]),
                    Scale2(((rect_max_y + rect_min_y) * 2) \div n2, ev[2])),
         wn |-> rect_max_x - rect_min_x,
         hn |-> rect_max_y - rect_min_y,
         n2 |-> n2,
         angle |-> -Atan2Deg(ev[2][1], ev[2][2])]

\* Mutant of AspectRejected: only one of the two comparisons
AspectRejectedOneSided(rect) == rect.wn > rect.hn * MaxAspect

\* rect.size.height > rect.size.width * 4 || rect.size.width > rect.size.height * 4
AspectRejected(rect) ==
    rect.hn > rect.wn * MaxAspect \/ rect.wn > rect.hn * MaxAspect

\* Mutant of ClearVector: the vector is not cleared
KeepVector(boundRect) == boundRect

\* boundRect.resize(0)
ClearVector(boundRect) == << >>

\* One pass of boundMask's loop from contour i on; acc = [rects, verdicts, iters,
\* thrown].  An exception ends the loop with the rectangles pushed so far.
RECURSIVE BoundLoop(_, _, _, _, _)
BoundLoop(s, contours, sg, i, acc) ==
    IF i > Len(contours) THEN acc
    ELSE
      LET m == ContourMoments(contours[i])
          it == acc.iters + 1
      IN  IF AreaRejected(s, m.m00)
          THEN BoundLoop(s, contours, sg, i + 1,
                         [acc EXCEPT !.verdicts = Append(@, "area"), !.iters = it])
          ELSE IF Len(contours[i]) = 0
          THEN [acc EXCEPT !.verdicts = Append(@, "throw"), !.iters = it,
                           !.thrown = "Empty contour"]
          ELSE
            LET rect == FitRect(contours[i], EigenVectors(m, sg))
            IN  IF AspectRejected(rect)
                THEN BoundLoop(s, contours, sg, i + 1,
                         [acc EXCEPT !.verdicts = Append(@, "aspect"), !.iters = it])
                ELSE BoundLoop(s, contours, sg, i + 1,
                         [acc EXCEPT !.verdicts = Append(@, "emitted"), !.iters = it,
                                     !.rects = Append(@, rect)])

\* boundMask(mask, boundRect): [rects, verdicts, iters, thrown, published]
BoundMask(s, mask, boundRect, sg) ==
    LET contours == FindContours(mask)
        r == BoundLoop(s, contours, sg, 1,
                       [rects |-> ClearVector(boundRect), verdicts |-> << >>,
                        iters |-> 0, thrown |-> "none"])
    IN  [rects |-> r.rects, verdicts |-> r.verdicts, iters |-> r.iters,
         thrown |-> r.thrown, contours |-> contours,
         published |-> IF s.debug_contours THEN {"contours"} ELSE {}]

\* ------------------------------------------------------------- checkCorners

\* (cos, sin) of an angle that is a multiple of 45 degrees, as an integer direction
\* (of squared norm 1 for a multiple of 90 degrees, 2 otherwise)
Direction(angle) ==
    LET a == angle % 360
    IN  IF a = 0 THEN <<1, 0>> ELSE IF a = 45 THEN <<1, 1>>
        ELSE IF a = 90 THEN <<0, 1>> ELSE IF a = 135 THEN <<-1, 1>>
        ELSE IF a = 180 THEN <<-1, 0>> ELSE IF a = 225 THEN <<-1, -1>>
        ELSE IF a = 270 THEN <<0, -1>> ELSE <<1, -1>>

\* 20 * (rect.center + i*offset_x + j*offset_y), with scale = 0.2:
\* offset_x = width * (1 - scale) / 2 * (cos, sin), offset_y = height * (1 - scale) / 2
\* * (-sin, cos)
WindowCenter20(rect, i, j) ==
    LET d == Direction(rect.angle)
        offset_x == Scale2((8 * rect.wn) \div rect.n2, d)
        offset_y == Scale2((8 * rect.hn) \div rect.n2, <<-d[2], d[1]>>)
    IN  Add(Scale2(5, rect.c4), Add(Scale2(i, offset_x), Scale2(j, offset_y)))

\* Whether the point p20 / 20 lies on the plate b
OnPlate(b, p20) ==
    LET d == Add(p20, Scale2(-20, b.c))
    IN  /\ Abs(Inner(d, b.u)) <= 20 * b.a * Inner(b.u, b.u)
        /\ Abs(Inner(d, b.v)) <= 20 * b.b * Inner(b.v, b.v)
        /\ b.a > 0 /\ b.b > 0

\* cv_utils::sumPatch: the colour of the frame averaged over the window's footprint.
\* A window at a corner of a plate lies within one corner patch of that plate.
SumPatch(f, p20) ==
    LET on == {k \in 1..Len(f.blobs) : OnPlate(f.blobs[k], p20)}
    IN  IF on = {} THEN f.bg
        ELSE LET b == f.blobs[CHOOSE k \in on : \A l \in on : k <= l]
                 d == Add(p20, Scale2(-20, b.c))
                 su == Sgn(Inner(d, b.u))
                 sv == Sgn(Inner(d, b.v))
             IN  IF su = 0 \/ sv = 0 THEN b.color ELSE b.paint[<<su, sv>>]

\* corners.at<uchar>((i+1)/2, (j+1)/2) for i, j in {-1, 1}: the 2x2 matrix, indexed
\* from 0 as in the code
CornerMatrix(s, f, rect) ==
    [rc \in {<<0, 0>>, <<0, 1>>, <<1, 0>>, <<1, 1>>} |->
        PatchGood(s, SumPatch(f, WindowCenter20(rect, 2 * rc[1] - 1, 2 * rc[2] - 1)))]

\* Mutant of FlipCondition: a diagonal pair instead of a side pair
FlipConditionDiagonal(c) ==
    ~c[<<0, 0>>] /\ ~c[<<1, 1>>] /\ c[<<0, 1>>] /\ c[<<1, 0>>]

\* The condition under which checkCorners turns the rectangle round
FlipCondition(c) ==
    ~c[<<0, 0>>] /\ ~c[<<0, 1>>] /\ c[<<1, 0>>] /\ c[<<1, 1>>]

\* rect.angle += 180; rect.angle = std::fmod(rect.angle, 360)
FlipAngle(angle) == Fmod(angle + 180, 360)

\* Mutant of CheckCorner: the sampling window's size is written back on a flip
CheckCornerWindow(s, f, rect) ==
    IF FlipCondition(CornerMatrix(s, f, rect))
    THEN [rect EXCEPT !.angle = FlipAngle(rect.angle),
                      !.wn = rect.wn \div 5, !.hn = rect.hn \div 5]
    ELSE rect

\* One rectangle of checkCorners' loop
CheckCorner(s, f, rect) ==
    IF FlipCondition(CornerMatrix(s, f, rect))
    THEN [rect EXCEPT !.angle = FlipAngle(rect.angle)]
    ELSE rect

\* checkCorners(image, rects): [rects, corners, iters]
CheckCorners(s, f, rects) ==
    [rects |-> [k \in 1..Len(rects) |-> CheckCorner(s, f, rects[k])],
     corners |-> [k \in 1..Len(rects) |-> CornerMatrix(s, f, rects[k])],
     iters |-> Len(rects)]

\* ------------------------------------------------------------------- detect

\* Mutant of MaskPublished: the mask is published whatever the toggle says
MaskPublishedAlways(s) == {"hsv_slice"}

\* The diagnostic image detect publishes itself
MaskPublished(s) == IF s.debug_hsv_slice THEN {"hsv_slice"} ELSE {}

\* thresholdFrame then boundMask, as detect runs them
DetectBound(s, f, boundRect, sg) ==
    BoundMask(s, ThresholdFrame(s, f), boundRect, sg)

\* detect(image, bounding_rects) with the eigen-solver's signs sg: the caller's
\* vector after the call.  An exception from boundMask leaves checkCorners
\* unexecuted and the vector as boundMask left it.
DetectRects(s, f, boundRect, sg) ==
    IF StructuringElementThrows(s) THEN boundRect
    ELSE LET bm == DetectBound(s, f, boundRect, sg)
         IN  IF bm.thrown = "none" THEN CheckCorners(s, f, bm.rects).rects ELSE bm.rects

\* The steps of the same call
DetectResult(s, f, boundRect, sg) ==
    IF StructuringElementThrows(s)
    THEN [contours |-> << >>, verdicts |-> << >>, pre_rects |-> << >>,
          corners |-> << >>, published |-> {}, thrown |-> "cv::Exception",
          contour_iters |-> 0, corner_iters |-> 0]
    ELSE
    LET bm == DetectBound(s, f, boundRect, sg)
        cc == IF bm.thrown = "none" THEN CheckCorners(s, f, bm.rects)
              ELSE [rects |-> bm.rects, corners |-> << >>, iters |-> 0]
    IN  [contours |-> bm.contours, verdicts |-> bm.verdicts,
         pre_rects |-> bm.rects, corners |-> cc.corners,
         published |-> MaskPublished(s) \cup bm.published,
         thrown |-> bm.thrown,
         contour_iters |-> bm.iters, corner_iters |-> cc.iters]

\* What a caller's vector may hold before its first call
StaleVectors ==
    { << >>,
      << [c4 |-> <<40, 40>>, wn |-> 7, hn |-> 9, n2 |-> 1, angle |-> 30] >> }

\* No sample has been put through the colour tests
NoSample == [hsv |-> <<0, 0, 0>>, dst |-> FALSE, patch_good |-> TRUE]

NoFrame == [size |-> <<0, 0>>, bg |-> Black, blobs |-> << >>]

\* RoombaBlobDetector::RoombaBlobDetector: settings_ copied, the diagnostic topics
\* advertised as the toggles say; no detect call yet.
\* The node's settings structures before getDynamicSettings has filled them
Unset == [pixels_per_meter |-> 0, flow_points |-> 0]

\* main not yet started
NodeIdle ==
    /\ pc = "init"
    /\ dynamic_reconfigure_called = FALSE
    /\ node_settings = Unset
    /\ incoming = Unset
    /\ calls = 0
    /\ ros_ok = TRUE
    /\ subscribed = FALSE
    /\ message_queue_item_limit = 0
    /\ message_queue = << >>
    /\ arrived = 0
    /\ handed = << >>

Init ==
    /\ settings_ \in SettingsSet
    /\ advertised = (IF settings_.debug_hsv_slice THEN {"hsv_slice"} ELSE {})
                    \cup (IF settings_.debug_contours THEN {"contours"} ELSE {})
    /\ bounding_rects \in StaleVectors
    /\ frame = NoFrame
    /\ eigen_signs = <<1, 1>>
    /\ stale_len = 0
    /\ last = [contours |-> << >>, verdicts |-> << >>, pre_rects |-> << >>,
               corners |-> << >>, published |-> {}, thrown |-> "none",
               contour_iters |-> 0, corner_iters |-> 0]
    /\ px = NoSample
    /\ NodeIdle /\ now = 0 /\ param_server = Unset /\ config = Unset

\* One call of detect on frame f, the caller passing its vector as it is.
Detect(f, sg) ==
    /\ last' = DetectResult(settings_, f, bounding_rects, sg)
    /\ bounding_rects' = DetectRects(settings_, f, bounding_rects, sg)
    /\ frame' = f
    /\ eigen_signs' = sg
    /\ stale_len' = Len(bounding_rects)
    /\ UNCHANGED <<settings_, advertised, px, nodeVars>>

Next == \E f \in Frames, sg \in SignChoices : Detect(f, sg)

Spec == Init /\ [][Next]_vars

\* A detect call has been made
Called == frame # NoFrame

\* ------------------------------------------- construction with any settings

\* The constructor copies the settings it is given and advertises by the toggles;
\* it accepts every RoombaEstimatorSettings value.
InitAnySettings ==
    /\ settings_ \in InvalidSettings \cup { MkSettings(40, 80, 100, 5, 1, TRUE, TRUE) }
    /\ advertised = (IF settings_.debug_hsv_slice THEN {"hsv_slice"} ELSE {})
                    \cup (IF settings_.debug_contours THEN {"contours"} ELSE {})
    /\ bounding_rects \in StaleVectors
    /\ frame = NoFrame
    /\ eigen_signs = <<1, 1>>
    /\ stale_len = 0
    /\ last = [contours |-> << >>, verdicts |-> << >>, pre_rects |-> << >>,
               corners |-> << >>, published |-> {}, thrown |-> "none",
               contour_iters |-> 0, corner_iters |-> 0]
    /\ px = NoSample
    /\ NodeIdle /\ now = 0 /\ param_server = Unset /\ config = Unset

SpecAnySettings == InitAnySettings /\ [][Next]_vars

\* ------------------------------------------------- the two colour tests

\* The HSV samples put through the tests: hues at and next to every end of the
\* hue ranges in SettingsSet, saturations and values at and next to the shared ends.
HueSamples == {0, 10, 11, 39, 40, 69, 70, 80, 81, 169, 170, 179}
SatSamples == {0, 99, 100, 255}
ValSamples == {49, 50, 99, 100, 255}
HsvSamples == HueSamples \X SatSamples \X ValSamples

\* A detector constructed and not yet called; no sample tested.
InitColor ==
    /\ Init
    /\ bounding_rects = << >>

\* One HSV sample through thresholdFrame's three range masks and through
\* checkCorners' three range masks, with the detector's settings.
Classify(hsv) ==
    /\ px' = [hsv |-> hsv,
              dst |-> RangeMaskOr(settings_, hsv),
              patch_good |-> PatchGoodMat(settings_, hsv)]
    /\ UNCHANGED <<detVars, nodeVars>>

NextColor == \E hsv \in HsvSamples : Classify(hsv)

SpecColor == InitColor /\ [][NextColor]_vars

Classified == px # NoSample

\* Every contour of the model has principal axes the closed form covers.
AxesDefined ==
    \A f \in Frames : \A k \in 1..Len(f.blobs) :
        EigenAxes(ContourMoments(f.blobs[k].contour)) # "none"

\* ------------------------------------------------------------ the vision node

MaxMessages == 4

MaxCalls == 3

\* Values of the reconfigurable settings: what the parameter server may hold and
\* what a dynamic-reconfigure request (or the server's default) may carry.
ParamValues == { [pixels_per_meter |-> 250, flow_points |-> 40],
                 [pixels_per_meter |-> 300, flow_points |-> 60] }
ConfigValues == { [pixels_per_meter |-> 300, flow_points |-> 60],
                  [pixels_per_meter |-> 400, flow_points |-> 80] }

\* Values of the message_queue_item_limit parameter
LimitValues == {0, 1, 2}

\* Mutant of GetDynamicSettings: the flag is left as it was
GetDynamicSettingsNoFlag(cfg, params, settings, ran) ==
    IF ~ran
    THEN [settings |-> params, config |-> params, ran |-> ran]
    ELSE [settings |-> cfg, config |-> cfg, ran |-> ran]

\* getDynamicSettings(config, private_nh, line_settings, flow_settings, ran): the
\* first call reads every setting from the parameter server and writes it into the
\* config; a later call writes every setting from the config.
GetDynamicSettings(cfg, params, settings, ran) ==
    IF ~ran
    THEN [settings |-> params, config |-> params, ran |-> TRUE]
    ELSE [settings |-> cfg, config |-> cfg, ran |-> TRUE]

\* dynamic_reconfigure_settings_callback, called by the server with config cfg
SettingsCallback(cfg) ==
    LET r == GetDynamicSettings(cfg, param_server, node_settings,
                                dynamic_reconfigure_called)
    IN  /\ node_settings' = r.settings
        /\ config' = r.config
        /\ dynamic_reconfigure_called' = r.ran
        /\ incoming' = cfg
        /\ calls' = calls + 1

\* Mutant of Handler: the message is put at the front
HandlerFront(queue, message) == <<message>> \o queue

\* handler: message_queue.push_back(message)
Handler(queue, message) == Append(queue, message)

\* Mutant of TakeMessage: over the limit the newest message is taken and the
\* others stay queued
TakeMessageNoClear(queue, limit) ==
    IF Len(queue) > limit
    THEN [message |-> queue[Len(queue)], queue |-> SubSeq(queue, 1, Len(queue) - 1)]
    ELSE [message |-> Head(queue), queue |-> Tail(queue)]

\* The main loop's choice of message from a non-empty queue: over the limit, back()
\* and clear(); otherwise front() and erase(begin()).
TakeMessage(queue, limit) ==
    IF Len(queue) > limit
    THEN [message |-> queue[Len(queue)], queue |-> << >>]
    ELSE [message |-> Head(queue), queue |-> Tail(queue)]

\* gridline_estimator.update(...), then optical_flow_estimator.update(message)
Update(log, message) ==
    log \o << <<"gridline", message>>, <<"optical_flow", message>> >>

\* The wait loop's condition
Waiting == ros_ok /\ (now = 0 \/ ~dynamic_reconfigure_called)

Running == pc \in {"init", "wait", "loop", "spin"}

\* The node before main starts: any parameter-server content, any default config,
\* time begun or not.  The detector is not part of the node.
InitNode ==
    /\ NodeIdle
    /\ now \in {0, 1}
    /\ param_server \in ParamValues
    /\ config \in ConfigValues
    /\ settings_ = MkSettings(40, 80, 100, 5, 1, FALSE, FALSE)
    /\ advertised = {}
    /\ bounding_rects = << >>
    /\ frame = NoFrame
    /\ eigen_signs = <<1, 1>>
    /\ stale_len = 0
    /\ last = [contours |-> << >>, verdicts |-> << >>, pre_rects |-> << >>,
               corners |-> << >>, published |-> {}, thrown |-> "none",
               contour_iters |-> 0, corner_iters |-> 0]
    /\ px = NoSample

\* main up to the wait loop: setCallback makes the server call the callback with
\* its current config; the other settings are loaded and the estimators built.
NodeStart ==
    /\ pc = "init"
    /\ SettingsCallback(config)
    /\ pc' = "wait"
    /\ UNCHANGED <<detVars, px, param_server, now, ros_ok, subscribed,
                   message_queue_item_limit, message_queue, arrived, handed>>

\* A ROS_ASSERT on a getParam fails while the settings are loaded
NodeStartAbort ==
    /\ pc = "init"
    /\ pc' = "aborted"
    /\ UNCHANGED <<detVars, px, dynamic_reconfigure_called, param_server, config,
                   incoming, node_settings, calls, now, ros_ok, subscribed,
                   message_queue_item_limit, message_queue, arrived, handed>>

\* One pass of the wait loop in which spinOnce delivers a reconfigure request
WaitSpin(cfg) ==
    /\ pc = "wait" /\ Waiting
    /\ calls < MaxCalls
    /\ SettingsCallback(cfg)
    /\ UNCHANGED <<detVars, px, pc, param_server, now, ros_ok, subscribed,
                   message_queue_item_limit, message_queue, arrived, handed>>

\* The wait loop ends; the node's own parameters are read, the estimators report
\* ready, the queue and handler are created and the image topic is subscribed to.
WaitExit(limit) ==
    /\ pc = "wait" /\ ~Waiting
    /\ message_queue_item_limit' = limit
    /\ message_queue' = << >>
    /\ subscribed' = TRUE
    /\ pc' = "loop"
    /\ UNCHANGED <<detVars, px, dynamic_reconfigure_called, param_server, config,
                   incoming, node_settings, calls, now, ros_ok, arrived, handed>>

\* The wait loop ends and a ROS_ASSERT (getParam, waitUntilReady) fails
WaitExitAbort ==
    /\ pc = "wait" /\ ~Waiting
    /\ pc' = "aborted"
    /\ UNCHANGED <<detVars, px, dynamic_reconfigure_called, param_server, config,
                   incoming, node_settings, calls, now, ros_ok, subscribed,
                   message_queue_item_limit, message_queue, arrived, handed>>

\* The main loop's body up to spinOnce
ProcessQueue ==
    /\ pc = "loop" /\ ros_ok
    /\ IF Len(message_queue) > 0
       THEN LET t == TakeMessage(message_queue, message_queue_item_limit)
            IN  /\ message_queue' = t.queue
                /\ handed' = Update(handed, t.message)
       ELSE UNCHANGED <<message_queue, handed>>
    /\ pc' = "spin"
    /\ UNCHANGED <<detVars, px, dynamic_reconfigure_called, param_server, config,
                   incoming, node_settings, calls, now, ros_ok, subscribed,
                   message_queue_item_limit, arrived>>

\* spinOnce in the main loop calls the handler with the next image
ImageArrives ==
    /\ pc = "spin" /\ subscribed
    /\ arrived < MaxMessages
    /\ arrived' = arrived + 1
    /\ message_queue' = Handler(message_queue, arrived + 1)
    /\ UNCHANGED <<detVars, px, pc, dynamic_reconfigure_called, param_server, config,
                   incoming, node_settings, calls, now, ros_ok, subscribed,
                   message_queue_item_limit, handed>>

\* spinOnce in the main loop delivers a reconfigure request
LoopSpin(cfg) ==
    /\ pc = "spin"
    /\ calls < MaxCalls
    /\ SettingsCallback(cfg)
    /\ UNCHANGED <<detVars, px, pc, param_server, now, ros_ok, subscribed,
                   message_queue_item_limit, message_queue, arrived, handed>>

\* spinOnce returns, rate.sleep(), back to the loop condition
SpinReturns ==
    /\ pc = "spin"
    /\ pc' = "loop"
    /\ UNCHANGED <<detVars, px, dynamic_reconfigure_called, param_server, config,
                   incoming, node_settings, calls, now, ros_ok, subscribed,
                   message_queue_item_limit, message_queue, arrived, handed>>

\* The main loop's condition fails: return 0
LoopExit ==
    /\ pc = "loop" /\ ~ros_ok
    /\ pc' = "done"
    /\ UNCHANGED <<detVars, px, dynamic_reconfigure_called, param_server, config,
                   incoming, node_settings, calls, now, ros_ok, subscribed,
                   message_queue_item_limit, message_queue, arrived, handed>>

\* Environment: time begins (the first clock value is received)
TimeBegins ==
    /\ Running /\ now = 0
    /\ now' = 1
    /\ UNCHANGED <<detVars, px, pc, dynamic_reconfigure_called, param_server, config,
                   incoming, node_settings, calls, ros_ok, subscribed,
                   message_queue_item_limit, message_queue, arrived, handed>>

\* Environment: the node is shut down; ros::ok() is false from then on
Shutdown ==
    /\ Running /\ ros_ok
    /\ ros_ok' = FALSE
    /\ UNCHANGED <<detVars, px, pc, dynamic_reconfigure_called, param_server, config,
                   incoming, node_settings, calls, now, subscribed,
                   message_queue_item_limit, message_queue, arrived, handed>>

NextNode ==
    \/ NodeStart
    \/ NodeStartAbort
    \/ \E cfg \in ConfigValues : WaitSpin(cfg)
    \/ \E limit \in LimitValues : WaitExit(limit)
    \/ WaitExitAbort
    \/ ProcessQueue
    \/ ImageArrives
    \/ \E cfg \in ConfigValues : LoopSpin(cfg)
    \/ SpinReturns
    \/ LoopExit
    \/ TimeBegins
    \/ Shutdown

SpecNode == InitNode /\ [][NextNode]_vars

\* ------------------------------------------------------------------ claims

\* The area (px^2) of contour i of the last call
Area(i) == ContourMoments(last.contours[i]).m00

\* Whether the frame is marker-coloured at corner (i, j) of rectangle k, i and j in
\* {-1, 1}: the corner at center + i*offset_x + j*offset_y
CornerMarker(k, i, j) ==
    PatchGood(settings_, SumPatch(frame, WindowCenter20(last.pre_rects[k], i, j)))

\* Both corners on the -x side are non-marker, both on the +x side are marker
SidePattern(k) ==
    /\ ~CornerMarker(k, -1, -1) /\ ~CornerMarker(k, -1, 1)
    /\ CornerMarker(k, 1, -1) /\ CornerMarker(k, 1, 1)

\* The diagonal (-x,-y), (+x,+y) is non-marker and the diagonal (-x,+y), (+x,-y) is marker
DiagonalPatternA(k) ==
    /\ ~CornerMarker(k, -1, -1) /\ ~CornerMarker(k, 1, 1)
    /\ CornerMarker(k, -1, 1) /\ CornerMarker(k, 1, -1)

\* The diagonal (-x,+y), (+x,-y) is non-marker and the diagonal (-x,-y), (+x,+y) is marker
DiagonalPatternB(k) ==
    /\ ~CornerMarker(k, -1, 1) /\ ~CornerMarker(k, 1, -1)
    /\ CornerMarker(k, -1, -1) /\ CornerMarker(k, 1, 1)

\* checkCorners turned rectangle k by 180 degrees / left its angle alone
Turned(k) ==
    bounding_rects[k].angle = (last.pre_rects[k].angle + 180) % 360

Untouched(k) ==
    bounding_rects[k].angle = last.pre_rects[k].angle

\* checkCorners ran in the last call
Checked == Called /\ last.thrown = "none"

\* C1 (as stated): the angle becomes (angle + 180) mod 360 exactly when one diagonal
\* pair of corners is non-marker and the opposite diagonal pair is marker, for one of
\* the two diagonals; every other combination leaves the angle unchanged.
C1_DiagonalFlip ==
    Checked =>
        /\ Len(bounding_rects) = Len(last.pre_rects)
        /\ \/ \A k \in 1..Len(last.pre_rects) :
                  IF DiagonalPatternA(k) THEN Turned(k) ELSE Untouched(k)
           \/ \A k \in 1..Len(last.pre_rects) :
                  IF DiagonalPatternB(k) THEN Turned(k) ELSE Untouched(k)

\* C1 (amended): the angle becomes (angle + 180) mod 360 exactly when both corners on
\* the rectangle's -x side are non-marker and both corners on its +x side are marker;
\* every other combination, both diagonal paintings included, leaves it unchanged.
C1_SideFlip ==
    Checked =>
        /\ Len(bounding_rects) = Len(last.pre_rects)
        /\ \A k \in 1..Len(last.pre_rects) :
              IF SidePattern(k) THEN Turned(k) /\ ~Untouched(k) ELSE Untouched(k)

\* C1 witness: one rectangle with the side pattern was turned while another with a
\* diagonal pattern was left alone.
C1_Witness ==
    /\ Checked
    /\ \E k, l \in 1..Len(last.pre_rects) :
          /\ SidePattern(k) /\ Turned(k) /\ ~Untouched(k)
          /\ (DiagonalPatternA(l) \/ DiagonalPatternB(l)) /\ Untouched(l)

\* C2: every detection detect returns has an angle in [0, 360).
C2_AngleRange ==
    Checked =>
        \A k \in 1..Len(bounding_rects) :
            0 <= bounding_rects[k].angle /\ bounding_rects[k].angle < 360

\* C3: a contour of zero boundary points makes boundMask raise "Empty contour"; it
\* is never skipped.
C3_EmptyContourRaises ==
    Called =>
        ((\E i \in 1..Len(last.contours) : Len(last.contours[i]) = 0)
            => last.thrown = "Empty contour")

LongSide(r) == IF r.wn >= r.hn THEN r.wn ELSE r.hn

ShortSide(r) == IF r.wn >= r.hn THEN r.hn ELSE r.wn

\* The rectangle fitted to contour i of the last call
Fitted(i) ==
    FitRect(last.contours[i], EigenVectors(ContourMoments(last.contours[i]), eigen_signs))

\* C5: boundMask emits a fitted rectangle exactly when the region's area is in the
\* band and the rectangle's long side is at most 4 times its short side.
C5_AspectLimit ==
    Called =>
        /\ \A i \in 1..Len(last.verdicts) :
              (last.verdicts[i] = "emitted")
                  <=> /\ Area(i) >= 2000 /\ Area(i) <= 15000
                      /\ Len(last.contours[i]) > 0
                      /\ LongSide(Fitted(i)) <= 4 * ShortSide(Fitted(i))
        /\ \A k \in 1..Len(last.pre_rects) :
              LongSide(last.pre_rects[k]) <= 4 * ShortSide(last.pre_rects[k])
        /\ Len(last.pre_rects)
              = Cardinality({i \in 1..Len(last.verdicts) : last.verdicts[i] = "emitted"})
        /\ (last.thrown = "none" => Len(last.verdicts) = Len(last.contours))

\* C5 witness: a rectangle of ratio exactly 4 was emitted and one of a larger ratio,
\* with its area in the band, was not.
C5_Witness ==
    /\ Called
    /\ \E i, j \in 1..Len(last.verdicts) :
          /\ last.verdicts[i] = "emitted"
          /\ LongSide(Fitted(i)) = 4 * ShortSide(Fitted(i))
          /\ last.verdicts[j] = "aspect"
          /\ Area(j) >= 2000 /\ Area(j) <= 15000

\* C6: what a call returns is what a fresh detector with the same settings returns
\* for the same frame into an empty vector, whatever came before.
C6_NoHistory ==
    Called => bounding_rects = DetectRects(settings_, frame, << >>, eigen_signs)

\* C6 witness: a call that began with a non-empty vector returned detections.
C6_Witness ==
    Called /\ stale_len > 0 /\ Len(bounding_rects) > 0

\* No pixel of the frame f matches any colour range of s: thresholdFrame's
\* membership test fails on every colour in the frame
NoPixelMatches(s, f) ==
    /\ ~ThresholdPixel(s, f.bg)
    /\ \A k \in 1..Len(f.blobs) :
          /\ ~ThresholdPixel(s, f.blobs[k].color)
          /\ \A q \in Quadrants : ~ThresholdPixel(s, f.blobs[k].paint[q])

\* C7: on a frame without a matching pixel detect returns no detection, raises
\* nothing and executes neither loop body.
C7_BackgroundOnly ==
    (Called /\ NoPixelMatches(settings_, frame)) =>
        /\ bounding_rects = << >>
        /\ last.thrown = "none"
        /\ last.contour_iters = 0
        /\ last.corner_iters = 0

\* C7 witness: such a frame, with a region of another colour in it, was processed by
\* a call that began with a non-empty vector.
C7_Witness ==
    /\ Called /\ NoPixelMatches(settings_, frame)
    /\ Len(frame.blobs) > 0 /\ stale_len > 0 /\ bounding_rects = << >>

\* C8: checkCorners returns the rectangles it was given, in order, with center and
\* size unchanged and the angle changed by 0 or by 180 degrees modulo 360.
C8_CornersFrame ==
    Checked =>
        /\ Len(bounding_rects) = Len(last.pre_rects)
        /\ \A k \in 1..Len(last.pre_rects) :
              /\ bounding_rects[k].c4 = last.pre_rects[k].c4
              /\ bounding_rects[k].wn = last.pre_rects[k].wn
              /\ bounding_rects[k].hn = last.pre_rects[k].hn
              /\ bounding_rects[k].n2 = last.pre_rects[k].n2
              /\ (bounding_rects[k].angle - last.pre_rects[k].angle) % 360 \in {0, 180}

\* C8 witness: of two rectangles, one was turned and the other was not.
C8_Witness ==
    /\ Checked
    /\ \E k, l \in 1..Len(last.pre_rects) :
          /\ bounding_rects[k].angle # last.pre_rects[k].angle
          /\ bounding_rects[l].angle = last.pre_rects[l].angle

\* The settings s with the two diagnostic toggles set to dh and dc
WithToggles(s, dh, dc) ==
    [s EXCEPT !.debug_hsv_slice = dh, !.debug_contours = dc]

\* C9: a diagnostic image goes out on "hsv_slice" / "contours" exactly when its
\* toggle is set, on a topic the constructor advertised, and the detections are the
\* same whatever the toggles are.
C9_DebugSideChannel ==
    Called =>
        /\ ("hsv_slice" \in last.published) <=> settings_.debug_hsv_slice
        /\ ("contours" \in last.published) <=> settings_.debug_contours
        /\ last.published \subseteq advertised
        /\ \A dh \in BOOLEAN, dc \in BOOLEAN :
              bounding_rects
                  = DetectRects(WithToggles(settings_, dh, dc), frame, << >>, eigen_signs)

\* C9 witness: a call that published the mask but not the contours returned detections.
C9_Witness ==
    Called /\ last.published = {"hsv_slice"} /\ Len(bounding_rects) > 0

\* C10: every rectangle boundMask emits has width > 0 and height > 0.
C10_PositiveSize ==
    Called =>
        \A k \in 1..Len(last.pre_rects) :
            last.pre_rects[k].wn > 0 /\ last.pre_rects[k].hn > 0

\* C10 witness: a rectangle was emitted from a mask that also held a region whose
\* boundary has points but no area.
C10_Witness ==
    /\ Called /\ Len(last.pre_rects) > 0
    /\ \E i \in 1..Len(last.contours) :
          Len(last.contours[i]) > 0 /\ Area(i) = 0

\* C11: both stages apply the same pure predicate to an HSV triple: the triple is
\* marker-coloured iff its hue is inclusively within at least one of the three hue
\* ranges and its saturation and value are inclusively within the shared bounds.
MarkerColored(s, hsv) ==
    /\ \/ s.hsv_slice_h_green_min <= hsv[1] /\ hsv[1] <= s.hsv_slice_h_green_max
       \/ s.hsv_slice_h_red1_min <= hsv[1] /\ hsv[1] <= s.hsv_slice_h_red1_max
       \/ s.hsv_slice_h_red2_min <= hsv[1] /\ hsv[1] <= s.hsv_slice_h_red2_max
    /\ s.hsv_slice_s_min <= hsv[2] /\ hsv[2] <= s.hsv_slice_s_max
    /\ s.hsv_slice_v_min <= hsv[3] /\ hsv[3] <= s.hsv_slice_v_max

C12_InvalidRejected ==
    Called => ValidSettings(settings_)

\* The messages an estimator has been given, in order
GivenTo(estimator) ==
    LET of == SelectSeq(handed, LAMBDA u : u[1] = estimator)
    IN  [i \in 1..Len(of) |-> of[i][2]]

\* The two updates of one message
UpdatesOf(message) == << <<"gridline", message>>, <<"optical_flow", message>> >>

\* C13: a main-loop iteration with a non-empty queue processes exactly one message:
\* with more than message_queue_item_limit messages queued, the most recently
\* received one, and the whole queue is emptied; otherwise the oldest one, and only
\* it is removed.  An iteration with an empty queue processes nothing and leaves
\* the queue unchanged.
C13_OneMessagePerIteration ==
    [][ (pc = "loop" /\ pc' = "spin") =>
          IF Len(message_queue) = 0
          THEN handed' = handed /\ message_queue' = message_queue
          ELSE IF Len(message_queue) > message_queue_item_limit
          THEN /\ handed' = handed \o UpdatesOf(message_queue[Len(message_queue)])
               /\ message_queue' = << >>
          ELSE /\ handed' = handed \o UpdatesOf(message_queue[1])
               /\ message_queue' = SubSeq(message_queue, 2, Len(message_queue)) ]_vars

\* C13 witness: an iteration has just taken the newest of several queued messages
\* and emptied the queue (an older message was never processed), after an earlier
\* iteration had taken the oldest message of a queue within the limit.
C13_Witness ==
    /\ pc = "spin" /\ message_queue = << >> /\ arrived >= 3
    /\ GivenTo("gridline") = <<1, arrived>>
    /\ message_queue_item_limit >= 1

StrictlyIncreasing(seq) ==
    \A i \in 1..Len(seq), j \in 1..Len(seq) : i < j => seq[i] < seq[j]

FlagAndCopies ==
    /\ pc = "init" => ~dynamic_reconfigure_called
    /\ dynamic_reconfigure_called <=> calls >= 1
    /\ calls = 1 => node_settings = param_server /\ config = param_server
    /\ calls > 1 => node_settings = incoming /\ config = incoming

\* An image has been queued or processed
ImageSeen == arrived > 0 \/ message_queue # << >> \/ handed # << >>

\* C15: the flag starts false, becomes true on the first getDynamicSettings call
\* (which loads the settings from the parameter server and copies them into the
\* config), and every later call copies the config into the settings; no image is
\* subscribed to, queued or processed before the flag is true and ROS time is
\* non-zero.
C15_StartupGate ==
    /\ FlagAndCopies
    /\ (subscribed \/ ImageSeen) => dynamic_reconfigure_called /\ now # 0

\* C15 as the code has it: the flag behaves as stated and is never reset; no image
\* is queued or processed before the flag is true and ROS time is non-zero; the
\* subscription is made when the wait loop ends, with the flag true and with ROS
\* time non-zero unless the node has been shut down.
C15_GateUnlessShutdown ==
    /\ [](/\ FlagAndCopies
          /\ ImageSeen => subscribed /\ dynamic_reconfigure_called /\ now # 0
          /\ subscribed => dynamic_reconfigure_called /\ (now # 0 \/ ~ros_ok))
    /\ [][dynamic_reconfigure_called => dynamic_reconfigure_called']_vars

\* C15 witness: after a reconfigure request changed the settings from what the
\* parameter server held, the node subscribed and has processed an image.
C15_Witness ==
    /\ calls > 1 /\ node_settings # param_server
    /\ subscribed /\ handed # << >>

====
